---- MODULE Spec2Model ----
(***************************************************************************)
(* Model of amazon-ranking-scheduler (amazonranking_matome.py).            *)
(*                                                                         *)
(* Text is modelled as a sequence of tokens.  A token stands for a fixed   *)
(* run of characters of the page and carries that run's length (Width),   *)
(* so that the character counts of the regular expressions keep their     *)
(* meaning.  The tokens and the text they stand for:                       *)
(*   "Amazon"   Amazon                 "Uresuji"  売れ筋ランキング          *)
(*   "Review"   カスタマーレビュー       "HonNo"    本の                    *)
(*   "KindleNo" Kindleストアの          "AudibleNo" Audibleの              *)
(*   "WoMiru"   を見る                  "Bungaku"  文学                     *)
(*   "Shosetsu" 小説                    "Kurai"    位                       *)
(*   "Minus"    U+2212 (unicode minus)  "FwColon"  U+FF1A (full-width :)    *)
(*   "FwLParen" U+FF08                  "FwRParen" U+FF09                   *)
(*   "NL"       line break              " " "-" ":" "," "(" ")" "<" ">"    *)
(*   "1" .. "9" themselves, "x" a single letter.                           *)
(***************************************************************************)
EXTENDS Integers, Sequences, FiniteSets, TLC

VARIABLES
    \* --- extraction (get_rankings_from_url / extract_rankings_from_html)
    url_page,     \* what the URL serves: [ok |-> BOOLEAN, html |-> tokens]
    keyword,      \* the keyword argument of the call being made
    epc,          \* position of the extraction call: "call", "returned"
    rankings,     \* the list returned by the call
    ex,           \* the locals of extract_rankings_from_html when the call is over
    \* --- local workbook files and save_to_excel_with_retry
    files,        \* path -> [exists, sheets: sheet name -> rows]
    xl,           \* the frame of the save_to_excel_with_retry call
    xlog,         \* what the local writer did, in order (calls, attempts, waits)
    \* --- remote worksheet and append_to_google_sheet (one frame per process)
    remote,       \* the worksheet SHEET_NAME: [exists, rows]
    rw,           \* process -> frame of its append_to_google_sheet call
    rlog,         \* the remote API requests made, in order
    \* --- the main script
    pc, now, normal_rankings, kindle_rankings, audible_rankings, row_data,
    \* --- the script amazonranking_to_gsheet_by_id
    gs            \* its position, its variables, its two worksheets and its log

evars == <<url_page, keyword, epc, rankings, ex>>
lvars == <<files, xl, xlog>>
rvars == <<remote, rw, rlog>>
mvars == <<pc, now, normal_rankings, kindle_rankings, audible_rankings, row_data>>
vars  == <<evars, lvars, rvars, mvars, gs>>

-----------------------------------------------------------------------------
(* Text primitives *)

Digits == {"1", "2", "3", "4", "5", "6", "7", "8", "9"}

\* Characters matched by \s.
Whitespace == {" ", "NL"}

\* Number of characters a token stands for.
Width(t) ==
    CASE t = "Amazon"    -> 6
      [] t = "Uresuji"   -> 8
      [] t = "Review"    -> 9
      [] t = "HonNo"     -> 2
      [] t = "KindleNo"  -> 11
      [] t = "AudibleNo" -> 8
      [] t = "WoMiru"    -> 3
      [] t = "Bungaku"   -> 2
      [] t = "Shosetsu"  -> 2
      [] OTHER           -> 1

RECURSIVE TextLen(_)
TextLen(s) == IF s = <<>> THEN 0 ELSE Width(Head(s)) + TextLen(Tail(s))

\* s[i] with Python's 0-based index; "" past the end.
Char(s, i) == IF i >= 0 /\ i < Len(s) THEN s[i + 1] ELSE ""

\* s[a:b]
Slice(s, a, b) == SubSeq(s, a + 1, b)

StartsAt(s, sub, i) ==
    i + Len(sub) <= Len(s) /\ SubSeq(s, i + 1, i + Len(sub)) = sub

\* str.find(sub, start): the lowest index >= start where sub occurs, or -1.
RECURSIVE Find(_, _, _)
Find(s, sub, start) ==
    IF start + Len(sub) > Len(s) THEN -1
    ELSE IF StartsAt(s, sub, start) THEN start
    ELSE Find(s, sub, start + 1)

\* "needle in text" for a needle that is one token of the alphabet.
Contains(s, t) == \E i \in 1..Len(s) : s[i] = t

RECURSIVE SkipWs(_, _)
SkipWs(s, i) == IF Char(s, i) \in Whitespace THEN SkipWs(s, i + 1) ELSE i

\* str.strip()
RECURSIVE LStrip(_)
LStrip(s) == IF s # <<>> /\ Head(s) \in Whitespace THEN LStrip(Tail(s)) ELSE s
RECURSIVE RStrip(_)
RStrip(s) ==
    IF s # <<>> /\ s[Len(s)] \in Whitespace THEN RStrip(SubSeq(s, 1, Len(s) - 1)) ELSE s
Strip(s) == RStrip(LStrip(s))

-----------------------------------------------------------------------------
(* The literals of extract_rankings_from_html *)

MARKER1    == <<"Amazon", " ", "Uresuji", ":">>
MARKER2    == <<"Uresuji", ":">>
TERMINATOR == <<"Review">>
CAPTION_HON     == <<"HonNo", "Uresuji", "WoMiru">>
CAPTION_KINDLE  == <<"KindleNo", "Uresuji", "WoMiru">>
CAPTION_AUDIBLE == <<"AudibleNo", "Uresuji", "WoMiru">>
SENTINEL   == <<"-">>

KW_PAPER   == "Paper"      \* '紙書籍'
KW_KINDLE  == "Kindle"
KW_AUDIBLE == "Audible"

-----------------------------------------------------------------------------
(* Regular expressions, matched as Python's re matches them.  MatchEnd gives *)
(* the end (exclusive) of the match of a pattern that starts at index i, or  *)
(* -1 when the pattern does not match there.                                 *)

\* '<.*?>' from the character after "<": the first ">" with no line break
\* before it ('.' does not match a line break).
RECURSIVE TagEnd(_, _)
TagEnd(s, j) ==
    IF j >= Len(s) THEN -1
    ELSE IF Char(s, j) = ">" THEN j + 1
    ELSE IF Char(s, j) = "NL" THEN -1
    ELSE TagEnd(s, j + 1)

\* '（?本の売れ筋ランキングを見る）?'
HonOptEnd(s, i) ==
    LET c == IF Char(s, i) = "FwLParen" /\ StartsAt(s, CAPTION_HON, i + 1) THEN i + 1
             ELSE IF StartsAt(s, CAPTION_HON, i) THEN i
             ELSE -1
        e == c + Len(CAPTION_HON)
    IN  IF c = -1 THEN -1
        ELSE IF Char(s, e) = "FwRParen" THEN e + 1 ELSE e

LiteralEnd(s, lit, i) == IF StartsAt(s, lit, i) THEN i + Len(lit) ELSE -1

\* '\(\s*\)'
EmptyParenEnd(s, i) ==
    IF Char(s, i) = "(" /\ Char(s, SkipWs(s, i + 1)) = ")"
    THEN SkipWs(s, i + 1) + 1 ELSE -1

MatchEnd(pat, s, i) ==
    CASE pat = "tag"           -> IF Char(s, i) = "<" THEN TagEnd(s, i + 1) ELSE -1
      [] pat = "ws"            -> IF Char(s, i) \in Whitespace THEN SkipWs(s, i) ELSE -1
      [] pat = "hon_opt"       -> HonOptEnd(s, i)
      [] pat = "kindle_paren"  -> LiteralEnd(s, <<"(">> \o CAPTION_KINDLE \o <<")">>, i)
      [] pat = "audible_paren" -> LiteralEnd(s, <<"(">> \o CAPTION_AUDIBLE \o <<")">>, i)
      [] pat = "hon"           -> LiteralEnd(s, CAPTION_HON, i)
      [] pat = "kindle"        -> LiteralEnd(s, CAPTION_KINDLE, i)
      [] pat = "audible"       -> LiteralEnd(s, CAPTION_AUDIBLE, i)
      [] pat = "empty_paren"   -> EmptyParenEnd(s, i)

\* re.sub(pat, repl, s), scanning from index i: leftmost non-overlapping matches.
RECURSIVE ReSubFrom(_, _, _, _)
ReSubFrom(pat, repl, s, i) ==
    IF i >= Len(s) THEN <<>>
    ELSE LET e == MatchEnd(pat, s, i)
         IN  IF e > i THEN repl \o ReSubFrom(pat, repl, s, e)
             ELSE <<Char(s, i)>> \o ReSubFrom(pat, repl, s, i + 1)

ReSub(pat, repl, s) == ReSubFrom(pat, repl, s, 0)

-----------------------------------------------------------------------------
(* The pattern ([^\-:：]{2,80}?)\s*[-−]\s*(\d{1,3}(?:,\d{3})*位) *)

MinLabel == 2
MaxLabel == 80

LabelChar(t) == t # "" /\ t \notin {"-", ":", "FwColon"}
SeparatorChar(t) == t \in {"-", "Minus"}

RECURSIVE DigitRun(_, _)
DigitRun(s, i) == IF Char(s, i) \in Digits THEN 1 + DigitRun(s, i + 1) ELSE 0

\* (?:,\d{3})* taken greedily from index k.
RECURSIVE GroupsEnd(_, _)
GroupsEnd(s, k) ==
    IF Char(s, k) = "," /\ DigitRun(s, k + 1) >= 3 THEN GroupsEnd(s, k + 4) ELSE k

\* \d{1,3}(?:,\d{3})*位 at index k: its end, or -1.  Giving back digits or
\* groups never helps: what follows them is then a digit or a comma, not 位.
RankEnd(s, k) ==
    LET d == DigitRun(s, k)
        m == IF d > 3 THEN 3 ELSE d
        e == GroupsEnd(s, k + m)
    IN  IF d >= 1 /\ Char(s, e) = "Kurai" THEN e + 1 ELSE -1

\* \s*[-−]\s*(rank) at index j: where the rank starts, or -1.
RankStart(s, j) ==
    LET k == SkipWs(s, j)
    IN  IF SeparatorChar(Char(s, k)) /\ RankEnd(s, SkipWs(s, k + 1)) # -1
        THEN SkipWs(s, k + 1) ELSE -1

\* The lazy label s[i:j]: the least j for which the rest of the pattern
\* matches, or -1.
RECURSIVE LabelEnd(_, _, _)
LabelEnd(s, i, j) ==
    IF j > Len(s) \/ ~LabelChar(Char(s, j - 1)) THEN -1
    ELSE IF TextLen(Slice(s, i, j)) > MaxLabel THEN -1
    ELSE IF TextLen(Slice(s, i, j)) >= MinLabel /\ RankStart(s, j) # -1 THEN j
    ELSE LabelEnd(s, i, j + 1)

\* re.findall(pattern, s) from index i: the (name, rank) groups in order.
RECURSIVE FindAllFrom(_, _)
FindAllFrom(s, i) ==
    IF i >= Len(s) THEN <<>>
    ELSE LET j == LabelEnd(s, i, i + 1)
         IN  IF j = -1 THEN FindAllFrom(s, i + 1)
             ELSE LET r == RankStart(s, j)
                      e == RankEnd(s, r)
                  IN  <<[name |-> Slice(s, i, j), rank |-> Slice(s, r, e)]>>
                      \o FindAllFrom(s, e)

FindAll(s) == FindAllFrom(s, 0)

-----------------------------------------------------------------------------
(* extract_rankings_from_html *)

ExpectedLen(kw) == IF kw = KW_PAPER THEN 4 ELSE 2

Dashes(n) == [k \in 1..n |-> SENTINEL]

\* lines 75-77: the first marker, else the second; -1 when neither occurs.
LocateStart(h) ==
    LET s1 == Find(h, MARKER1, 0)
    IN  IF s1 = -1 THEN Find(h, MARKER2, 0) ELSE s1

\* Mutant: the terminator is searched from the beginning of the text.
LocateBlock_FromTextStart(h, start) ==
    LET e  == Find(h, TERMINATOR, 0)
        end == IF e = -1 THEN Len(h) ELSE e
    IN  Slice(h, start, end)

\* lines 82-85
LocateBlock(h, start) ==
    LET e  == Find(h, TERMINATOR, start)
        end == IF e = -1 THEN Len(h) ELSE e
    IN  Slice(h, start, end)

\* lines 88-98
RemoveTags(b) == ReSub("tag", <<>>, b)
CollapseWhitespace(b) == ReSub("ws", <<" ">>, b)
RemoveCaptions(b) ==
    ReSub("audible", <<>>,
      ReSub("kindle", <<>>,
        ReSub("hon", <<>>,
          ReSub("audible_paren", <<>>,
            ReSub("kindle_paren", <<>>,
              ReSub("hon_opt", <<>>, b))))))
Clean(b) == RemoveCaptions(CollapseWhitespace(RemoveTags(b)))

\* Mutant: only "Amazon" counts as noise.
IsNoise_OnlyAmazon(name) == Contains(name, "Amazon")

\* line 114
IsNoise(name) == Contains(name, "Amazon") \/ Contains(name, "WoMiru")

\* Mutant: the entry is rendered label first.
Render_LabelFirst(name, rank) == ReSub("empty_paren", <<>>, name \o rank)

\* lines 116-118
Render(name, rank) == ReSub("empty_paren", <<>>, rank \o name)

\* lines 110-119
RECURSIVE CollectRankings(_)
CollectRankings(matches) ==
    IF matches = <<>> THEN <<>>
    ELSE LET name == Strip(Head(matches).name)
             rank == Strip(Head(matches).rank)
         IN  IF IsNoise(name) THEN CollectRankings(Tail(matches))
             ELSE <<Render(name, rank)>> \o CollectRankings(Tail(matches))

\* Mutant: a list that is too long keeps its last entries.
Normalize_KeepsLast(r, expected_len) ==
    IF Len(r) < expected_len THEN r \o Dashes(expected_len - Len(r))
    ELSE SubSeq(r, Len(r) - expected_len + 1, Len(r))

\* Mutant: the list is padded but never cut.
Normalize_PadOnly(r, expected_len) ==
    IF Len(r) < expected_len THEN r \o Dashes(expected_len - Len(r)) ELSE r

\* lines 122-126
Normalize(r, expected_len) ==
    IF Len(r) < expected_len THEN r \o Dashes(expected_len - Len(r))
    ELSE IF Len(r) > expected_len THEN SubSeq(r, 1, expected_len)
    ELSE r

\* The locals of extract_rankings_from_html as the call leaves them: start
\* (lines 75-77), the block as located (line 85) and as cleaned (line 98),
\* the matches (line 105) and the rankings before normalisation (line 119).
NoLocals ==
    [start |-> -1, located |-> <<>>, block |-> <<>>, matches |-> <<>>, entries |-> <<>>]

ExtractLocals(h) ==
    LET start == LocateStart(h)
    IN  IF start = -1 THEN NoLocals
        ELSE LET located == LocateBlock(h, start)
                 block   == Clean(located)
                 matches == FindAll(block)
             IN  [start |-> start, located |-> located, block |-> block,
                  matches |-> matches, entries |-> CollectRankings(matches)]

\* lines 106-129: what the call returns, from its locals
ReturnedRankings(loc, kw) ==
    IF loc.start = -1 THEN Dashes(ExpectedLen(kw))
    ELSE IF loc.matches = <<>> THEN Dashes(ExpectedLen(kw))
    ELSE Normalize(loc.entries, ExpectedLen(kw))

extract_rankings_from_html(h, kw) == ReturnedRankings(ExtractLocals(h), kw)

\* page: what urlopen(url) meets; ok = FALSE when the fetch or decode raises.
get_rankings_from_url(page, kw) ==
    IF ~page.ok THEN Dashes(ExpectedLen(kw))
    ELSE extract_rankings_from_html(page.html, kw)

-----------------------------------------------------------------------------
(* Local workbook: save_to_excel_with_retry *)

SHEET_NAME == "Amazon Uresuji"        \* 'Amazon 売れ筋ランキング'
PRIMARY    == "amazonranking_matome.xlsx"
BACKUP     == "amazonranking_matome_backup.xlsx"
Paths      == {PRIMARY, BACKUP}

MAX_RETRIES_DEFAULT == 3
BACKOFF_SECONDS     == 5

NoFile == [exists |-> FALSE, sheets |-> [n \in {} |-> <<>>]]

\* lines 181-186: the workbook of an existing file, else a new one with its
\* default sheet removed.
LoadWorkbook(f) == IF f.exists THEN f.sheets ELSE [n \in {} |-> <<>>]

\* lines 189-195: a lone Sheet1 is renamed, otherwise the sheet is created.
EnsureSheet(wb) ==
    IF SHEET_NAME \in DOMAIN wb THEN wb
    ELSE IF DOMAIN wb = {"Sheet1"} THEN [n \in {SHEET_NAME} |-> wb["Sheet1"]]
    ELSE [n \in DOMAIN wb \cup {SHEET_NAME} |->
             IF n = SHEET_NAME THEN <<>> ELSE wb[n]]

\* line 200: ws.append(row_data)
AppendToSheet(wb, row) == [wb EXCEPT ![SHEET_NAME] = Append(@, row)]

RECURSIVE AppendTimes(_, _, _)
AppendTimes(rows, row, n) ==
    IF n = 0 THEN rows ELSE AppendTimes(Append(rows, row), row, n - 1)

\* Mutant: the workbook is loaded once, before the loop, so the rows
\* appended by the failed attempts are saved with the last one.
SavedFile_RowPerAttempt(f, row) ==
    [exists |-> TRUE,
     sheets |-> [EnsureSheet(LoadWorkbook(f)) EXCEPT
                    ![SHEET_NAME] = AppendTimes(@, row, xl.attempt + 1)]]

\* lines 181-215: what wb.save leaves in the file
SavedFile(f, row) ==
    [exists |-> TRUE, sheets |-> AppendToSheet(EnsureSheet(LoadWorkbook(f)), row)]

\* line 177: for attempt in range(max_retries)
LoopContinues(attempt, max_retries) == attempt < max_retries

\* Mutant: the wait is taken after the last attempt too.
AfterException_WaitsAfterLast(kind, attempt, max_retries) ==
    IF kind = "PermissionError"
    THEN IF attempt < max_retries THEN "sleep" ELSE "return"
    ELSE "return"

\* Mutant: every exception is retried like a permission conflict.
AfterException_RetriesAll(kind, attempt, max_retries) ==
    IF attempt < max_retries - 1 THEN "sleep" ELSE "return"

\* lines 219-229: what follows an exception raised inside an attempt.
\* "sleep": wait and go round the loop; "return": return False.
AfterException(kind, attempt, max_retries) ==
    IF kind = "PermissionError"
    THEN IF attempt < max_retries - 1 THEN "sleep" ELSE "return"
    ELSE "return"

IdleXl == [pc |-> "idle", path |-> "", row |-> <<>>, max_retries |-> 0,
           attempt |-> 0, result |-> FALSE]

\* The call save_to_excel_with_retry(path, row, max_retries): the frame on
\* entry, at the top of the loop (line 177), or returned (line 231) when the
\* loop has nothing to run.
EnterSave(path, row, max_retries) ==
    [pc |-> IF LoopContinues(0, max_retries) THEN "try" ELSE "returned",
     path |-> path, row |-> row, max_retries |-> max_retries,
     attempt |-> 0, result |-> FALSE]

CallEvent(path, row) == [ev |-> "call", path |-> path, row |-> row]
TryEvent(outcome) ==
    [ev |-> "try", path |-> xl.path, attempt |-> xl.attempt + 1, outcome |-> outcome]
SleepEvent == [ev |-> "sleep", path |-> xl.path, secs |-> BACKOFF_SECONDS]
RetEvent(frame) == [ev |-> "ret", path |-> frame.path, result |-> frame.result]

\* the log after an event, and after the return the event may lead to
Logged(log, event, frame) ==
    IF frame.pc = "returned" THEN log \o <<event, RetEvent(frame)>>
    ELSE Append(log, event)

\* lines 178-217: the attempt loads, appends, saves and returns True.
AttemptSaves ==
    /\ xl.pc = "try"
    /\ files' = [files EXCEPT ![xl.path] = SavedFile(@, xl.row)]
    /\ xl' = [xl EXCEPT !.pc = "returned", !.result = TRUE]
    /\ xlog' = Logged(xlog, TryEvent("saved"), xl')
    /\ UNCHANGED <<evars, rvars, mvars, gs>>

\* An exception of the given kind is raised inside the attempt, before the
\* file is written (lines 219-229).
AttemptRaises(kind) ==
    /\ xl.pc = "try"
    /\ xl' = IF AfterException(kind, xl.attempt, xl.max_retries) = "sleep"
             THEN [xl EXCEPT !.pc = "sleep"]
             ELSE [xl EXCEPT !.pc = "returned", !.result = FALSE]
    /\ xlog' = Logged(xlog, TryEvent(kind), xl')
    /\ UNCHANGED <<files, evars, rvars, mvars, gs>>

AttemptPermissionError == AttemptRaises("PermissionError")
AttemptOtherError      == AttemptRaises("Exception")

\* line 223, then the next round of the loop (line 177) or, when the loop is
\* over, line 231.
Sleep ==
    /\ xl.pc = "sleep"
    /\ xl' = IF LoopContinues(xl.attempt + 1, xl.max_retries)
             THEN [xl EXCEPT !.pc = "try", !.attempt = @ + 1]
             ELSE [xl EXCEPT !.pc = "returned", !.attempt = @ + 1, !.result = FALSE]
    /\ xlog' = Logged(xlog, SleepEvent, xl')
    /\ UNCHANGED <<files, evars, rvars, mvars, gs>>

SaveStep ==
    \/ AttemptSaves
    \/ AttemptPermissionError
    \/ AttemptOtherError
    \/ Sleep

-----------------------------------------------------------------------------
(* Remote worksheet: append_to_google_sheet *)

Procs == {1, 2}       \* processes that may run the script at the same time
MAIN  == 1

\* worksheet.sort((1, 'des')): the rows in descending order of the first
\* column; rows with equal keys keep their order.
RECURSIVE InsertDesc(_, _)
InsertDesc(sorted, r) ==
    IF sorted = <<>> THEN <<r>>
    ELSE IF Head(sorted)[1] >= r[1] THEN <<Head(sorted)>> \o InsertDesc(Tail(sorted), r)
    ELSE <<r>> \o sorted

\* Mutant: the sheet is sorted in ascending order.
RECURSIVE InsertAsc(_, _)
InsertAsc(sorted, r) ==
    IF sorted = <<>> THEN <<r>>
    ELSE IF Head(sorted)[1] <= r[1] THEN <<Head(sorted)>> \o InsertAsc(Tail(sorted), r)
    ELSE <<r>> \o sorted

RECURSIVE SortDesc_Ascending(_)
SortDesc_Ascending(rows) ==
    IF rows = <<>> THEN <<>>
    ELSE InsertAsc(SortDesc_Ascending(SubSeq(rows, 1, Len(rows) - 1)), rows[Len(rows)])

RECURSIVE SortDesc(_)
SortDesc(rows) ==
    IF rows = <<>> THEN <<>>
    ELSE InsertDesc(SortDesc(SubSeq(rows, 1, Len(rows) - 1)), rows[Len(rows)])

\* Mutant: only an unset variable counts as missing ("is None").
CredsMissing_OnlyUnset(creds_json) == creds_json = "UNSET"

\* line 246: "if not creds_json" -- unset or empty
CredsMissing(creds_json) == creds_json \in {"UNSET", ""}

\* Mutant: the function returns whether it appended and sorted.
RemoteReturnValue_Boolean(logged) == IF logged = "ok" THEN "True" ELSE "False"

\* The function has no return statement with a value: every path gives None.
RemoteReturnValue(logged) == "None"

\* Mutant: the exception is not caught.
OnRemoteException_Propagates == "propagates"

\* lines 277-278: the except clause catches the exception and logs it.
OnRemoteException == "caught"

IdleRw(creds_json) ==
    [pc |-> "idle", row |-> <<>>, creds |-> creds_json, ret |-> "", logged |-> "",
     failed_at |-> ""]

\* the frame on entry to append_to_google_sheet(row)
EnterRemote(frame, row) ==
    [frame EXCEPT !.pc = "creds", !.row = row, !.ret = "", !.logged = "",
                  !.failed_at = ""]

Returned(frame, logged) ==
    [frame EXCEPT !.pc = "returned", !.logged = logged, !.ret = RemoteReturnValue(logged)]

Request(w, op) == [proc |-> w, op |-> op]

\* lines 245-248
CheckCredentials(w) ==
    /\ rw[w].pc = "creds"
    /\ rw' = [rw EXCEPT ![w] = IF CredsMissing(rw[w].creds)
                               THEN Returned(@, "skipped")
                               ELSE [@ EXCEPT !.pc = "open"]]
    /\ UNCHANGED <<remote, rlog, evars, lvars, mvars, gs>>

\* lines 256-262
OpenSpreadsheet(w) ==
    /\ rw[w].pc = "open"
    /\ rw' = [rw EXCEPT ![w].pc = "worksheet"]
    /\ rlog' = Append(rlog, Request(w, "open_by_key"))
    /\ UNCHANGED <<remote, evars, lvars, mvars, gs>>

\* lines 263-266
FindWorksheet(w) ==
    /\ rw[w].pc = "worksheet"
    /\ rw' = [rw EXCEPT ![w].pc = IF remote.exists THEN "append" ELSE "add_worksheet"]
    /\ rlog' = Append(rlog, Request(w, "worksheet"))
    /\ UNCHANGED <<remote, evars, lvars, mvars, gs>>

\* line 267; the service refuses a second sheet of the same title, and the
\* refusal is an exception like any other (lines 277-278).
AddWorksheet(w) ==
    /\ rw[w].pc = "add_worksheet"
    /\ rlog' = Append(rlog, Request(w, "add_worksheet"))
    /\ IF remote.exists
       THEN /\ rw' = [rw EXCEPT ![w] =
                        IF OnRemoteException = "caught"
                        THEN [Returned(@, "error") EXCEPT !.failed_at = "add_worksheet"]
                        ELSE [@ EXCEPT !.pc = "raised", !.failed_at = "add_worksheet"]]
            /\ UNCHANGED remote
       ELSE /\ rw' = [rw EXCEPT ![w].pc = "append"]
            /\ remote' = [exists |-> TRUE, rows |-> <<>>]
    /\ UNCHANGED <<evars, lvars, mvars, gs>>

\* Mutant: the row is written over the last row of the sheet.
AppendedRows_Overwrites(rows, row) ==
    IF rows = <<>> THEN <<row>> ELSE [rows EXCEPT ![Len(rows)] = row]

\* line 270: worksheet.append_row puts the row after the last row of the sheet
AppendedRows(rows, row) == Append(rows, row)

\* lines 270-271
AppendRow(w) ==
    /\ rw[w].pc = "append"
    /\ remote' = [remote EXCEPT !.rows = AppendedRows(@, rw[w].row)]
    /\ rw' = [rw EXCEPT ![w].pc = "sort"]
    /\ rlog' = Append(rlog, Request(w, "append_row"))
    /\ UNCHANGED <<evars, lvars, mvars, gs>>

\* lines 274-275, and the return at the end of the function
SortSheet(w) ==
    /\ rw[w].pc = "sort"
    /\ remote' = [remote EXCEPT !.rows = SortDesc(@)]
    /\ rw' = [rw EXCEPT ![w] = Returned(@, "ok")]
    /\ rlog' = Append(rlog, Request(w, "sort"))
    /\ UNCHANGED <<evars, lvars, mvars, gs>>

\* A request of lines 256-274 raises (authorisation, network, quota): it has
\* no effect on the sheet, and lines 277-278 handle it.
RemoteRaises(w) ==
    /\ rw[w].pc \in {"open", "worksheet", "add_worksheet", "append", "sort"}
    /\ rw' = [rw EXCEPT ![w] =
                IF OnRemoteException = "caught"
                THEN [Returned(@, "error") EXCEPT !.failed_at = rw[w].pc]
                ELSE [@ EXCEPT !.pc = "raised", !.failed_at = rw[w].pc]]
    /\ UNCHANGED <<remote, rlog, evars, lvars, mvars, gs>>

RemoteStep(w) ==
    \/ CheckCredentials(w)
    \/ OpenSpreadsheet(w)
    \/ FindWorksheet(w)
    \/ AddWorksheet(w)
    \/ AppendRow(w)
    \/ SortSheet(w)
    \/ RemoteRaises(w)

-----------------------------------------------------------------------------
(* The main script, lines 284-328 *)

\* Pages the three URLs may serve.
ENTRY_A     == <<"Bungaku", " ", "-", " ", "5", "Kurai">>
ENTRY_B     == <<"Shosetsu", "Minus", "1", ",", "2", "3", "4", "Kurai">>
ENTRY_NOISE == <<"Amazon", " ", "x", "-", "7", "Kurai">>

PAGE_NONE    == <<"x", "Review">>
PAGE_PARTIAL == MARKER1 \o <<" ">> \o ENTRY_A \o <<" ">> \o TERMINATOR
PAGE_SURPLUS ==
    <<"<", "x", ">">> \o MARKER1 \o <<" ">> \o ENTRY_A \o ENTRY_B \o ENTRY_A
    \o ENTRY_B \o ENTRY_A \o TERMINATOR

FetchFails == [ok |-> FALSE, html |-> <<>>]
Serves(h)  == [ok |-> TRUE, html |-> h]
Served     == {FetchFails, Serves(PAGE_NONE), Serves(PAGE_PARTIAL), Serves(PAGE_SURPLUS)}

\* line 298
FetchNormal ==
    /\ pc = "fetch_normal"
    /\ \E page \in Served : normal_rankings' = get_rankings_from_url(page, KW_PAPER)
    /\ pc' = "fetch_kindle"
    /\ UNCHANGED <<now, kindle_rankings, audible_rankings, row_data, evars, lvars, rvars, gs>>

\* line 299
FetchKindle ==
    /\ pc = "fetch_kindle"
    /\ \E page \in Served : kindle_rankings' = get_rankings_from_url(page, KW_KINDLE)
    /\ pc' = "fetch_audible"
    /\ UNCHANGED <<now, normal_rankings, audible_rankings, row_data, evars, lvars, rvars, gs>>

\* line 300
FetchAudible ==
    /\ pc = "fetch_audible"
    /\ \E page \in Served : audible_rankings' = get_rankings_from_url(page, KW_AUDIBLE)
    /\ pc' = "build"
    /\ UNCHANGED <<now, normal_rankings, kindle_rankings, row_data, evars, lvars, rvars, gs>>

\* Mutant: the Kindle columns come before the print-book columns.
RowData_KindleFirst(t, normal, kindle, audible) == <<t>> \o kindle \o normal \o audible

\* line 302: [now] + normal_rankings + kindle_rankings + audible_rankings
RowData(t, normal, kindle, audible) == <<t>> \o normal \o kindle \o audible

\* Mutant: the Excel part comes first and the remote write is left out.
NextAfterBuild_ExcelFirst == "call_excel"

\* The statement that follows the assembly of row_data: line 308, the
\* remote write (the Excel part comes after it, lines 311-326).
NextAfterBuild == "call_remote"

\* lines 302-305
BuildRow ==
    /\ pc = "build"
    /\ row_data' = RowData(now, normal_rankings, kindle_rankings, audible_rankings)
    /\ pc' = NextAfterBuild
    /\ UNCHANGED <<now, normal_rankings, kindle_rankings, audible_rankings,
                   evars, lvars, rvars, gs>>

\* line 308: the call
CallRemote ==
    /\ pc = "call_remote"
    /\ rw' = [rw EXCEPT ![MAIN] = EnterRemote(@, row_data)]
    /\ pc' = "in_remote"
    /\ UNCHANGED <<now, normal_rankings, kindle_rankings, audible_rankings, row_data,
                   remote, rlog, evars, lvars, gs>>

\* Mutant: the Excel part runs only when the remote write raised nothing
\* and is skipped after it.
NextAfterRemote_SkipsExcel(frame_pc) == IF frame_pc = "returned" THEN "done" ELSE "aborted"

\* Where the script goes when append_to_google_sheet is over: on to the
\* Excel part when it returned; an exception it let through is caught by
\* nothing at module level and ends the script.
NextAfterRemote(frame_pc) == IF frame_pc = "returned" THEN "call_excel" ELSE "aborted"

\* line 308: the call is over
AfterRemote ==
    /\ pc = "in_remote"
    /\ rw[MAIN].pc \in {"returned", "raised"}
    /\ pc' = NextAfterRemote(rw[MAIN].pc)
    /\ UNCHANGED <<now, normal_rankings, kindle_rankings, audible_rankings, row_data,
                   evars, lvars, rvars, gs>>

\* lines 311-315: the call on the primary path, with the default max_retries
CallPrimary ==
    /\ pc = "call_excel"
    /\ xl' = EnterSave(PRIMARY, row_data, MAX_RETRIES_DEFAULT)
    /\ xlog' = Logged(xlog, CallEvent(PRIMARY, row_data), xl')
    /\ pc' = "in_primary"
    /\ UNCHANGED <<now, normal_rankings, kindle_rankings, audible_rankings, row_data,
                   files, evars, rvars, gs>>

\* Mutant: the backup is written whatever the primary write returned.
NeedsBackup_Always(primary_result) == TRUE

\* line 315: "if not save_to_excel_with_retry(excel_path, row_data)"
NeedsBackup(primary_result) == ~primary_result

\* lines 315-318: the primary call is over; the backup call when it failed
AfterPrimary ==
    /\ pc = "in_primary"
    /\ xl.pc = "returned"
    /\ IF NeedsBackup(xl.result)
       THEN /\ xl' = EnterSave(BACKUP, row_data, MAX_RETRIES_DEFAULT)
            /\ xlog' = Logged(xlog, CallEvent(BACKUP, row_data), xl')
            /\ pc' = "in_backup"
       ELSE /\ pc' = "done"
            /\ UNCHANGED <<xl, xlog>>
    /\ UNCHANGED <<now, normal_rankings, kindle_rankings, audible_rankings, row_data,
                   files, evars, rvars, gs>>

\* lines 318-328: the backup call is over; its result is logged
AfterBackup ==
    /\ pc = "in_backup"
    /\ xl.pc = "returned"
    /\ pc' = "done"
    /\ UNCHANGED <<now, normal_rankings, kindle_rankings, audible_rankings, row_data,
                   evars, lvars, rvars, gs>>

-----------------------------------------------------------------------------
(* The script amazonranking_to_gsheet_by_id.py *)

NO_INFO == <<<<"NoInfo">>>>       \* ['ランキング情報なし']

\* What its get_rankings_from_url returns: the rankings it cut out of the
\* page, or NO_INFO when the fetch failed three times or nothing was found.
ByIdRankings ==
    {NO_INFO, <<<<"5", "Kurai", "Bungaku">>>>,
     <<<<"5", "Kurai", "Bungaku">>, <<"7", "Kurai", "Shosetsu">>>>}

IdleById ==
    [pc |-> "idle", now |-> 0, normal_rankings |-> <<>>, kindle_rankings |-> <<>>,
     sheet_normal |-> <<>>, sheet_kindle |-> <<>>, requests |-> <<>>, log |-> <<>>]

\* lines 13-20: authorise and open the spreadsheet and its two worksheets
ByIdOpen ==
    /\ gs.pc = "open"
    /\ gs' = [gs EXCEPT !.pc = "fetch_normal"]
    /\ UNCHANGED <<evars, lvars, rvars, mvars>>

\* lines 13-20 raise: nothing at module level catches the exception
ByIdOpenRaises ==
    /\ gs.pc = "open"
    /\ gs' = [gs EXCEPT !.pc = "aborted"]
    /\ UNCHANGED <<evars, lvars, rvars, mvars>>

\* line 85
ByIdFetchNormal ==
    /\ gs.pc = "fetch_normal"
    /\ \E r \in ByIdRankings :
          gs' = [gs EXCEPT !.pc = "fetch_kindle", !.normal_rankings = <<gs.now>> \o r]
    /\ UNCHANGED <<evars, lvars, rvars, mvars>>

\* lines 86-89
ByIdFetchKindle ==
    /\ gs.pc = "fetch_kindle"
    /\ \E r \in ByIdRankings :
          gs' = [gs EXCEPT !.pc = "append_normal", !.kindle_rankings = <<gs.now>> \o r,
                           !.log = Append(@, "write start")]
    /\ UNCHANGED <<evars, lvars, rvars, mvars>>

ByIdRequest(sheet, outcome) == [sheet |-> sheet, outcome |-> outcome]

\* Mutant: each append has a handler of its own, so the second append runs
\* after the first one failed.
AfterAppendRaises_OwnHandlers(stmt) ==
    IF stmt = "append_normal" THEN "append_kindle" ELSE "finish"

\* lines 93-94: the one except clause of the try block that holds both
\* appends; after it the script goes on at line 96.
AfterAppendRaises(stmt) == "finish"

\* line 90
ByIdAppendNormal ==
    /\ gs.pc = "append_normal"
    /\ gs' = [gs EXCEPT !.pc = "append_kindle",
                        !.sheet_normal = Append(@, gs.normal_rankings),
                        !.requests = Append(@, ByIdRequest("normal", "ok"))]
    /\ UNCHANGED <<evars, lvars, rvars, mvars>>

\* line 90 raises, lines 93-94
ByIdAppendNormalRaises ==
    /\ gs.pc = "append_normal"
    /\ gs' = [gs EXCEPT !.pc = AfterAppendRaises("append_normal"),
                        !.requests = Append(@, ByIdRequest("normal", "raised")),
                        !.log = Append(@, "write error")]
    /\ UNCHANGED <<evars, lvars, rvars, mvars>>

\* lines 91-92
ByIdAppendKindle ==
    /\ gs.pc = "append_kindle"
    /\ gs' = [gs EXCEPT !.pc = "finish",
                        !.sheet_kindle = Append(@, gs.kindle_rankings),
                        !.requests = Append(@, ByIdRequest("kindle", "ok")),
                        !.log = Append(@, "write complete")]
    /\ UNCHANGED <<evars, lvars, rvars, mvars>>

\* line 91 raises, lines 93-94
ByIdAppendKindleRaises ==
    /\ gs.pc = "append_kindle"
    /\ gs' = [gs EXCEPT !.pc = AfterAppendRaises("append_kindle"),
                        !.requests = Append(@, ByIdRequest("kindle", "raised")),
                        !.log = Append(@, "write error")]
    /\ UNCHANGED <<evars, lvars, rvars, mvars>>

\* line 96
ByIdFinish ==
    /\ gs.pc = "finish"
    /\ gs' = [gs EXCEPT !.pc = "done", !.log = Append(@, "done")]
    /\ UNCHANGED <<evars, lvars, rvars, mvars>>

-----------------------------------------------------------------------------
(* Specifications *)

MaxTime       == 2     \* clock readings (hours) are 1..MaxTime
MaxBody       == 5     \* pieces in the body of an enumerated page
MaxRetriesArg == 4     \* max_retries arguments are 0..MaxRetriesArg
MaxCalls      == 3     \* successive calls of append_to_google_sheet
MaxPieces     == 3     \* pieces of a short page

Times    == 1..MaxTime
Keywords == {KW_PAPER, KW_KINDLE, KW_AUDIBLE}

\* A record as an earlier run left it: a timestamp and eight ranking cells.
RecordOf(t, cell) == <<t>> \o [k \in 1..8 |-> cell]
OldRecord(t) == RecordOf(t, SENTINEL)

\* Workbook files as earlier runs, or the user, may have left them.
FileWithSheet == [exists |-> TRUE, sheets |-> [n \in {SHEET_NAME} |-> <<OldRecord(1)>>]]
FileSheet1    == [exists |-> TRUE, sheets |-> [n \in {"Sheet1"} |-> <<>>]]
FileOther     ==
    [exists |-> TRUE, sheets |-> [n \in {"Sheet1", "Memo"} |-> <<>>]]

\* Worksheets as earlier runs may have left them: absent, empty, one record,
\* or two records out of order (an earlier sort failed).
RemoteStates ==
    {[exists |-> FALSE, rows |-> <<>>], [exists |-> TRUE, rows |-> <<>>]}
    \cup {[exists |-> TRUE, rows |-> <<OldRecord(t)>>] : t \in Times}
    \cup {[exists |-> TRUE, rows |-> <<OldRecord(1), OldRecord(MaxTime)>>]}

CredsValues == {"UNSET", "", "JSON"}

IdleExtract ==
    /\ url_page = FetchFails /\ keyword = "" /\ epc = "idle" /\ rankings = <<>>
    /\ ex = NoLocals
IdleLocal ==
    /\ files = [p \in Paths |-> NoFile] /\ xl = IdleXl /\ xlog = <<>>
IdleRemote ==
    /\ remote = [exists |-> FALSE, rows |-> <<>>]
    /\ rw = [w \in Procs |-> IdleRw("UNSET")]
    /\ rlog = <<>>
IdleMain ==
    /\ pc = "idle" /\ now = 0 /\ normal_rankings = <<>> /\ kindle_rankings = <<>>
    /\ audible_rankings = <<>> /\ row_data = <<>>
    /\ gs = IdleById

\* --- one run of the script
Init ==
    /\ IdleExtract
    /\ \E fs \in {<<NoFile, NoFile>>, <<FileSheet1, FileWithSheet>>} :
          files = [p \in Paths |-> IF p = PRIMARY THEN fs[1] ELSE fs[2]]
    /\ xl = IdleXl /\ xlog = <<>>
    /\ remote \in RemoteStates
    /\ \E c \in CredsValues : rw = [w \in Procs |-> IdleRw(c)]
    /\ rlog = <<>>
    /\ pc = "fetch_normal"
    /\ now \in Times
    /\ normal_rankings = <<>> /\ kindle_rankings = <<>> /\ audible_rankings = <<>>
    /\ row_data = <<>>
    /\ gs = IdleById

Next ==
    \/ FetchNormal
    \/ FetchKindle
    \/ FetchAudible
    \/ BuildRow
    \/ CallRemote
    \/ RemoteStep(MAIN)
    \/ AfterRemote
    \/ CallPrimary
    \/ SaveStep
    \/ AfterPrimary
    \/ AfterBackup

Spec == Init /\ [][Next]_vars

\* The interpreter runs the script's next statement whenever there is one.
FairSpec == Spec /\ WF_vars(Next)

\* --- get_rankings_from_url on enumerated pages
Pieces == {ENTRY_A, ENTRY_B, ENTRY_NOISE, <<":", "x">>}
Heads  == {<<>>, MARKER1, MARKER2}
Tails  == {<<>>, TERMINATOR \o ENTRY_A}

RECURSIVE Flatten(_)
Flatten(ps) == IF ps = <<>> THEN <<>> ELSE Head(ps) \o Flatten(Tail(ps))

Bodies == UNION {[1..n -> Pieces] : n \in 0..MaxBody}
Pages  == {h \o Flatten(b) \o t : h \in Heads, b \in Bodies, t \in Tails}

\* Short pages: markers, terminators, markup and captions in any order.
NOISE_MIRU  == <<"WoMiru", "x", "-", "7", "Kurai">>
TAG_BROKEN  == <<"<", "x", "NL", ">">>
ShortPieces ==
    {MARKER1, MARKER2, TERMINATOR, ENTRY_A, NOISE_MIRU, TAG_BROKEN, CAPTION_HON, <<" ">>}
ShortPages  == {Flatten(b) : b \in UNION {[1..n -> ShortPieces] : n \in 0..MaxPieces}}

\* Pages of particular shapes.
\* 'Amazon 売れ筋ランキング: 123位文学 - 456位小説 カスタマーレビュー'
SCENARIO_A ==
    MARKER1 \o <<" ", "1", "2", "3", "Kurai", "Bungaku", " ", "-", " ",
                 "4", "5", "6", "Kurai", "Shosetsu", " ">> \o TERMINATOR
\* a terminator before the marker and one after it
TERMINATOR_FIRST ==
    <<"x">> \o TERMINATOR \o <<" ">> \o MARKER2 \o ENTRY_A \o ENTRY_B
    \o TERMINATOR \o ENTRY_A
\* a caption inside a caption
NESTED_CAPTION ==
    MARKER1 \o <<"HonNo">> \o CAPTION_HON \o <<"Uresuji", "WoMiru">> \o ENTRY_A
    \o TERMINATOR
\* a caption between two spaces
CAPTION_SPACED ==
    MARKER1 \o ENTRY_A \o <<" ", "(">> \o CAPTION_KINDLE \o <<")", " ">> \o ENTRY_B
    \o TERMINATOR
\* a noisy pair between two valid ones
NOISE_BETWEEN ==
    MARKER1 \o ENTRY_A \o <<" ">> \o NOISE_MIRU \o <<" ">> \o ENTRY_B \o TERMINATOR
Scenarios ==
    {SCENARIO_A, TERMINATOR_FIRST, NESTED_CAPTION, CAPTION_SPACED, NOISE_BETWEEN}

InitExtract ==
    /\ url_page \in {FetchFails} \cup {Serves(h) : h \in Pages \cup ShortPages \cup Scenarios}
    /\ keyword \in Keywords
    /\ epc = "call"
    /\ rankings = <<>>
    /\ ex = NoLocals
    /\ IdleLocal /\ IdleRemote /\ IdleMain

\* lines 132-160
GetRankings ==
    /\ epc = "call"
    /\ ex' = IF url_page.ok THEN ExtractLocals(url_page.html) ELSE NoLocals
    /\ rankings' = IF url_page.ok THEN ReturnedRankings(ex', keyword)
                   ELSE get_rankings_from_url(url_page, keyword)
    /\ epc' = "returned"
    /\ UNCHANGED <<url_page, keyword, lvars, rvars, mvars, gs>>

NextExtract == GetRankings

SpecExtract == InitExtract /\ [][NextExtract]_vars

\* --- save_to_excel_with_retry called with any max_retries
InitSave ==
    /\ IdleExtract /\ IdleRemote /\ IdleMain
    /\ \E f \in {NoFile, FileWithSheet, FileSheet1, FileOther} :
          files = [p \in Paths |-> IF p = PRIMARY THEN f ELSE NoFile]
    /\ \E n \in 0..MaxRetriesArg, t \in Times :
          /\ xl = EnterSave(PRIMARY, OldRecord(t), n)
          /\ xlog = Logged(<<>>, CallEvent(PRIMARY, OldRecord(t)), xl)

NextSave == SaveStep

SpecSave == InitSave /\ [][NextSave]_vars

\* --- append_to_google_sheet called again and again by one process
InitRemote ==
    /\ IdleExtract /\ IdleLocal /\ IdleMain
    /\ remote \in {[exists |-> FALSE, rows |-> <<>>], [exists |-> TRUE, rows |-> <<>>]}
    /\ rw = [w \in Procs |-> IdleRw("JSON")]
    /\ rlog = <<>>

CallsMade == Cardinality({i \in 1..Len(rlog) : rlog[i].op = "open_by_key"})

RemoteCall ==
    /\ rw[MAIN].pc \in {"idle", "returned"}
    /\ CallsMade < MaxCalls
    /\ \E t \in Times, c \in {SENTINEL, <<"5", "Kurai", "Bungaku">>} :
          rw' = [rw EXCEPT ![MAIN] = EnterRemote(@, RecordOf(t, c))]
    /\ UNCHANGED <<remote, rlog, evars, lvars, mvars, gs>>

NextRemote == RemoteCall \/ RemoteStep(MAIN)

SpecRemote == InitRemote /\ [][NextRemote]_vars

\* --- two processes run append_to_google_sheet at the same time
InitRace ==
    /\ IdleExtract /\ IdleLocal /\ IdleMain
    /\ remote \in RemoteStates
    /\ \E t1 \in Times, t2 \in Times :
          rw = [w \in Procs |->
                  EnterRemote(IdleRw("JSON"),
                              IF w = MAIN THEN RecordOf(t1, <<"5", "Kurai", "Bungaku">>)
                              ELSE RecordOf(t2, <<"7", "Kurai", "Shosetsu">>))]
    /\ rlog = <<>>

NextRace == \E w \in Procs : RemoteStep(w)

SpecRace == InitRace /\ [][NextRace]_vars

\* --- one run of amazonranking_to_gsheet_by_id
\* Rows earlier runs left in a worksheet (their timestamp is before every
\* reading of the clock in Times).
ByIdOldRows == {<<>>, <<<<0>> \o NO_INFO>>}

InitById ==
    /\ IdleExtract /\ IdleLocal /\ IdleRemote
    /\ pc = "idle" /\ now = 0 /\ normal_rankings = <<>> /\ kindle_rankings = <<>>
    /\ audible_rankings = <<>> /\ row_data = <<>>
    /\ \E t \in Times, n \in ByIdOldRows, k \in ByIdOldRows :
          gs = [IdleById EXCEPT !.pc = "open", !.now = t,
                                !.sheet_normal = n, !.sheet_kindle = k]

NextById ==
    \/ ByIdOpen
    \/ ByIdOpenRaises
    \/ ByIdFetchNormal
    \/ ByIdFetchKindle
    \/ ByIdAppendNormal
    \/ ByIdAppendNormalRaises
    \/ ByIdAppendKindle
    \/ ByIdAppendKindleRaises
    \/ ByIdFinish

SpecById == InitById /\ [][NextById]_vars

\* The interpreter runs the script's next statement whenever there is one.
FairSpecById == SpecById /\ WF_vars(NextById)

-----------------------------------------------------------------------------
(* Properties *)

\* The entries that survive the noise filter on page text h (marker found).
Survivors(h) == CollectRankings(FindAll(Clean(LocateBlock(h, LocateStart(h)))))

\* C1: the list returned by get_rankings_from_url / extract_rankings_from_html
\* has exactly expected_len elements (4 for the print-book keyword, 2
\* otherwise), whatever the page and whichever way the call ends.
C1_RowLength ==
    epc = "returned" => Len(rankings) = ExpectedLen(keyword)

\* A print-book page with more than four surviving entries has been processed.
C1_Witness ==
    /\ epc = "returned"
    /\ url_page.ok
    /\ keyword = KW_PAPER
    /\ LocateStart(url_page.html) # -1
    /\ Len(Survivors(url_page.html)) > ExpectedLen(keyword)
    /\ \A i \in 1..Len(rankings) : rankings[i] # SENTINEL

SaveCalls == SelectSeq(xlog, LAMBDA e : e.ev = "call")
SaveRets  == SelectSeq(xlog, LAMBDA e : e.ev = "ret")
SaveTries == SelectSeq(xlog, LAMBDA e : e.ev = "try")
SaveSteps == SelectSeq(xlog, LAMBDA e : e.ev \in {"try", "sleep"})

AllLocked == \A i \in 1..Len(SaveTries) : SaveTries[i].outcome = "PermissionError"

\* C2: called with max_retries = n >= 1 on a target that raises a permission
\* conflict on every attempt, save_to_excel_with_retry makes exactly n
\* attempts, waits 5 seconds between consecutive attempts and nowhere else,
\* and returns False when, and only when, the n-th attempt has failed.
C2_LockedTarget ==
    (xl.max_retries >= 1 /\ AllLocked) =>
        /\ \A i \in 1..Len(SaveSteps) :
              IF i % 2 = 1
              THEN SaveSteps[i].ev = "try" /\ SaveSteps[i].attempt = (i + 1) \div 2
              ELSE SaveSteps[i].ev = "sleep" /\ SaveSteps[i].secs = 5
        /\ Len(SaveTries) <= xl.max_retries
        /\ (xl.pc = "returned") <=>
               (Len(SaveTries) = xl.max_retries /\ Len(SaveSteps) = 2 * xl.max_retries - 1)
        /\ xl.pc = "returned" => xl.result = FALSE /\ SaveRets = <<RetEvent(xl)>>

\* Three attempts, all locked, and the call has returned.
C2_Witness ==
    /\ xl.pc = "returned"
    /\ xl.max_retries = 3
    /\ Len(SaveTries) = 3
    /\ AllLocked

\* C3: when the primary write returns False the script calls the writer on
\* the backup path once, with the same record; it makes no backup call
\* otherwise, and after a backup call that returned False nothing more is
\* done on any local path.
C3_BackupOnce ==
    /\ Len(SaveCalls) <= 2
    /\ Len(SaveCalls) >= 1 => SaveCalls[1].path = PRIMARY /\ SaveCalls[1].row = row_data
    /\ Len(SaveCalls) = 2 =>
          /\ Len(SaveRets) >= 1
          /\ SaveRets[1].path = PRIMARY
          /\ SaveRets[1].result = FALSE
          /\ SaveCalls[2].path = BACKUP
          /\ SaveCalls[2].row = SaveCalls[1].row
    /\ (pc \in {"in_backup", "done"} /\ SaveRets[1].result = FALSE) => Len(SaveCalls) = 2
    /\ (Len(SaveRets) = 2 /\ SaveRets[2].result = FALSE) =>
          /\ xlog[Len(xlog)] = SaveRets[2]
          /\ SaveRets[2].path = BACKUP
          /\ pc \in {"in_backup", "done"}

\* The run is over and the backup call has returned False.
C3_Witness ==
    /\ pc = "done"
    /\ Len(SaveRets) = 2
    /\ SaveRets[2].result = FALSE
    /\ \E i \in 1..Len(xlog) : xlog[i].ev = "try" /\ xlog[i].path = BACKUP

\* C4: an exception other than a permission conflict raised in an attempt
\* ends the call at once: the attempt is the last thing done on the path,
\* no wait follows it, and the call has returned False, however many
\* attempts remain.
C4_FatalAborts ==
    \A i \in 1..Len(xlog) :
        (xlog[i].ev = "try" /\ xlog[i].outcome = "Exception") =>
            /\ i = Len(xlog) - 1
            /\ xlog[Len(xlog)] = [ev |-> "ret", path |-> xlog[i].path, result |-> FALSE]
            /\ xl.pc = "returned"
            /\ xl.result = FALSE

\* A fatal error in the second of four attempts.
C4_Witness ==
    /\ xl.max_retries = 4
    /\ Len(SaveTries) = 2
    /\ SaveTries[1].outcome = "PermissionError"
    /\ SaveTries[2].outcome = "Exception"
    /\ xl.pc = "returned"

IsSortedDesc(rows) == \A i \in 1..(Len(rows) - 1) : rows[i][1] >= rows[i + 1][1]

\* C5: when a call of append_to_google_sheet has appended and sorted, the
\* worksheet holds the record and is in descending order of its first
\* column, so its first row holds the latest timestamp of the sheet.
C5_SortedAfterAppend ==
    (rw[MAIN].pc = "returned" /\ rw[MAIN].logged = "ok") =>
        /\ IsSortedDesc(remote.rows)
        /\ \E i \in 1..Len(remote.rows) : remote.rows[i] = rw[MAIN].row
        /\ \A i \in 1..Len(remote.rows) : remote.rows[1][1] >= remote.rows[i][1]

\* Two appends with ascending timestamps on an empty sheet: the later one is
\* the first row.
C5_Witness ==
    /\ rw[MAIN].pc = "returned"
    /\ rw[MAIN].logged = "ok"
    /\ rw[MAIN].row[1] = 2
    /\ Len(remote.rows) = 2
    /\ remote.rows[1][1] = 2
    /\ remote.rows[2][1] = 1
    /\ Cardinality({i \in 1..Len(rlog) : rlog[i].op = "sort"}) = 2

Appended(w) == \E i \in 1..Len(rlog) : rlog[i] = Request(w, "append_row")
Occurrences(rows, r) == Cardinality({i \in 1..Len(rows) : rows[i] = r})
BothOk == \A w \in Procs : rw[w].pc = "returned" /\ rw[w].logged = "ok"

NoRecordLost ==
    \A w \in Procs : Appended(w) => Occurrences(remote.rows, rw[w].row) = 1

SortedWhenBothDone ==
    BothOk => IsSortedDesc(remote.rows) /\ \A w \in Procs : Appended(w)

AppendsBeforeSorts ==
    \A i \in 1..Len(rlog) :
        rlog[i].op = "sort" =>
            \A w \in Procs : \E j \in 1..(i - 1) : rlog[j] = Request(w, "append_row")

\* C6 as stated: with two processes in append_to_google_sheet at once, no
\* record is lost, the sheet holds both records in descending order once
\* both have finished without error, and both appends precede every sort.
C6_Original == NoRecordLost /\ SortedWhenBothDone /\ AppendsBeforeSorts

\* C6 as amended: no record is lost and the sheet holds both records in
\* descending order once both have finished without error; a process may
\* sort before the other has appended.
C6_Amended == NoRecordLost /\ SortedWhenBothDone

\* Both finished without error, and the first sort came before the second append.
C6_Witness ==
    /\ BothOk
    /\ Len(remote.rows) >= 2
    /\ \E i \in 1..Len(rlog) : \E j \in (i + 1)..Len(rlog) :
          rlog[i].op = "sort" /\ rlog[j].op = "append_row"

RunOver == pc \in {"done", "aborted"}
LocalAttempted  == \E i \in 1..Len(xlog) : xlog[i].ev = "try" /\ xlog[i].path = PRIMARY
RemoteAttempted == rw[MAIN].pc \in {"returned", "raised"}

\* C7: when a run is over, however it ended, append_to_google_sheet has been
\* called and a write on the primary workbook has been attempted: no outcome
\* of one sink keeps the script from the other.
C7_BothSinksAttempted == RunOver => (LocalAttempted /\ RemoteAttempted)

\* The remote write failed at its last request, the sort, and the local
\* write was attempted.
C7_Witness ==
    /\ pc = "done"
    /\ rw[MAIN].logged = "error"
    /\ rw[MAIN].failed_at = "sort"
    /\ LocalAttempted

\* C8: with GOOGLE_CREDENTIALS unset or empty the process makes no request to
\* the remote service, and the run still attempts the local write.
C8_NoCredentials ==
    rw[MAIN].creds \in {"UNSET", ""} =>
        /\ rlog = <<>>
        /\ rw[MAIN].pc \in {"idle", "creds", "returned"}
        /\ rw[MAIN].pc = "returned" => rw[MAIN].logged = "skipped"
        /\ pc = "done" => LocalAttempted

\* The run is over with empty credentials and a local write.
C8_Witness ==
    /\ pc = "done"
    /\ rw[MAIN].creds = ""
    /\ rw[MAIN].logged = "skipped"
    /\ LocalAttempted

TriesOn(p) == Cardinality({i \in 1..Len(xlog) : xlog[i].ev = "try" /\ xlog[i].path = p})

\* C9: every run reaches its last statement, no run is ended by an
\* exception, and no path sees more write attempts than max_retries.
C9_RunCompletes ==
    /\ <>(pc = "done")
    /\ [](pc # "aborted" /\ \A p \in Paths : TriesOn(p) <= MAX_RETRIES_DEFAULT)

\* The run is over after the remote write failed and every local attempt,
\* primary and backup, met a permission conflict.
C9_Witness ==
    /\ pc = "done"
    /\ rw[MAIN].logged = "error"
    /\ TriesOn(PRIMARY) = 3
    /\ TriesOn(BACKUP) = 3
    /\ AllLocked

AppendRequests(w) == Cardinality({i \in 1..Len(rlog) : rlog[i] = Request(w, "append_row")})

\* C10 as stated: append_to_google_sheet returns a success boolean, False for
\* every failure and True for an append-and-sort, and appends at most once.
C10_Original ==
    /\ rw[MAIN].pc = "returned" =>
          rw[MAIN].ret = (IF rw[MAIN].logged = "ok" THEN "True" ELSE "False")
    /\ AppendRequests(MAIN) <= 1

\* C10 as amended: append_to_google_sheet catches every failure and returns
\* None on every path (skipped, failed, appended and sorted), so the caller
\* cannot tell the outcomes apart; it appends at most once.
C10_Amended ==
    /\ rw[MAIN].pc # "raised"
    /\ rw[MAIN].pc = "returned" =>
          rw[MAIN].ret = "None" /\ rw[MAIN].logged \in {"skipped", "error", "ok"}
    /\ AppendRequests(MAIN) <= 1

\* A failed remote write has returned None after its append.
C10_Witness ==
    /\ rw[MAIN].pc = "returned"
    /\ rw[MAIN].logged = "error"
    /\ rw[MAIN].ret = "None"
    /\ AppendRequests(MAIN) = 1

RANK_123_BUNGAKU  == <<"1", "2", "3", "Kurai", "Bungaku">>
RANK_456_SHOSETSU == <<"4", "5", "6", "Kurai", "Shosetsu">>

ScenarioADone ==
    epc = "returned" /\ url_page = Serves(SCENARIO_A) /\ ExpectedLen(keyword) = 2

\* C11 as stated: on 'Amazon 売れ筋ランキング: 123位文学 - 456位小説
\* カスタマーレビュー' with expected_len = 2 the pipeline returns
\* ['123位文学', '456位小説'].
C11_Original ==
    ScenarioADone => rankings = <<RANK_123_BUNGAKU, RANK_456_SHOSETSU>>

\* C11 as amended: on that input with expected_len = 2 the pipeline returns
\* ['456位123位文学', '-']: the pattern reads a label, a separator and then a
\* rank, so '123位文学' is the label of the rank '456位', and '小説' is
\* followed by no rank.
C11_Amended ==
    ScenarioADone =>
        rankings = <<<<"4", "5", "6", "Kurai">> \o RANK_123_BUNGAKU, SENTINEL>>

\* Scenario A has been processed for the Kindle keyword: one match.
C11_Witness ==
    /\ ScenarioADone
    /\ keyword = KW_KINDLE
    /\ Len(ex.matches) = 1
    /\ ex.matches[1].rank = <<"4", "5", "6", "Kurai">>

\* C12: with k entries surviving the noise filter, the returned row is those
\* entries in document order followed by expected_len - k sentinels when
\* k < expected_len, and the first expected_len of them otherwise; nothing
\* is reordered and equal entries are both kept.
C12_Normalization ==
    epc = "returned" =>
        /\ Len(rankings) = ExpectedLen(keyword)
        /\ \A i \in 1..ExpectedLen(keyword) :
              rankings[i] = IF i <= Len(ex.entries) THEN ex.entries[i] ELSE SENTINEL

\* Three entries for a two-column keyword, the first two equal: both kept,
\* the third cut.
C12_Witness ==
    /\ epc = "returned"
    /\ keyword = KW_AUDIBLE
    /\ Len(ex.entries) = 3
    /\ ex.entries[1] = ex.entries[2]
    /\ ex.entries[3] # ex.entries[1]
    /\ rankings = <<ex.entries[1], ex.entries[1]>>

\* C13 as stated: the cleaning steps applied to their own output leave it
\* unchanged.
C13_Idempotent ==
    (epc = "returned" /\ ex.start # -1) => Clean(ex.block) = ex.block

HasNoiseWord(t) == \E i \in 1..Len(t) : t[i] \in {"Amazon", "WoMiru"}
ValidMatches == SelectSeq(ex.matches, LAMBDA m : ~HasNoiseWord(Strip(m.name)))

\* C14: no matched pair whose trimmed label contains "Amazon" or "見る" gives
\* an element of the returned row, and every other matched pair gives its
\* entry, in document order, whatever pairs were discarded around it.
C14_NoiseFiltered ==
    epc = "returned" =>
        /\ \A i \in 1..Len(rankings) : ~HasNoiseWord(rankings[i])
        /\ Len(ex.entries) = Len(ValidMatches)
        /\ \A i \in 1..Len(ValidMatches) :
              ex.entries[i] = Render(Strip(ValidMatches[i].name), Strip(ValidMatches[i].rank))

\* A pair with "見る" in its label between two valid pairs: both are kept.
C14_Witness ==
    /\ epc = "returned"
    /\ Len(ex.matches) = 3
    /\ Contains(ex.matches[2].name, "WoMiru")
    /\ Len(ex.entries) = 2
    /\ rankings[1] = <<"5", "Kurai", "Bungaku">>
    /\ rankings[2] = <<"1", ",", "2", "3", "4", "Kurai", "Shosetsu">>

OccursAt(h, sub, i) == i + Len(sub) <= Len(h) /\ SubSeq(h, i + 1, i + Len(sub)) = sub
Occurs(h, sub) == \E i \in 0..Len(h) : OccursAt(h, sub, i)
\* the first occurrence of sub in h at or after index from; Len(h) when none
FirstAtOrAfter(h, sub, from) ==
    IF \E i \in from..Len(h) : OccursAt(h, sub, i)
    THEN CHOOSE i \in from..Len(h) :
            OccursAt(h, sub, i) /\ \A j \in from..(i - 1) : ~OccursAt(h, sub, j)
    ELSE Len(h)
MarkerUsed(h) == IF Occurs(h, MARKER1) THEN MARKER1 ELSE MARKER2
MarkerAt(h) == FirstAtOrAfter(h, MarkerUsed(h), 0)
MarkerFound == epc = "returned" /\ url_page.ok /\ ex.start # -1

\* C16 as stated: the block starts at the end of the matched marker and
\* ends at the first terminator after the marker, or at the end of the
\* text; the second marker is used when the first is absent.
C16_Original ==
    LET h == url_page.html
    IN  /\ (epc = "returned" /\ url_page.ok) =>
              ((ex.start # -1) <=> (Occurs(h, MARKER1) \/ Occurs(h, MARKER2)))
        /\ MarkerFound =>
              ex.located = SubSeq(h, MarkerAt(h) + Len(MarkerUsed(h)) + 1,
                                  FirstAtOrAfter(h, TERMINATOR, MarkerAt(h)))

\* C16 as amended: the block starts at the beginning of the matched marker,
\* so the marker text is part of the block, and ends at the first
\* terminator after the marker, or at the end of the text; a terminator
\* before the marker never shortens it, and the second marker is used when
\* the first is absent.
C16_Amended ==
    LET h == url_page.html
    IN  /\ (epc = "returned" /\ url_page.ok) =>
              ((ex.start # -1) <=> (Occurs(h, MARKER1) \/ Occurs(h, MARKER2)))
        /\ MarkerFound =>
              /\ ex.start = MarkerAt(h)
              /\ ex.located = SubSeq(h, MarkerAt(h) + 1,
                                      FirstAtOrAfter(h, TERMINATOR, MarkerAt(h)))

\* Only the second marker occurs, with a terminator before it and one after.
C16_Witness ==
    /\ MarkerFound
    /\ ~Occurs(url_page.html, MARKER1)
    /\ FirstAtOrAfter(url_page.html, TERMINATOR, 0) < ex.start
    /\ ex.start + Len(ex.located) < Len(url_page.html)
    /\ Len(ex.located) > Len(MARKER2)

RemoteStarted  == rw[MAIN].pc # "idle"
RemoteOver     == rw[MAIN].pc \in {"returned", "raised"}
LocalStarted   == SaveCalls # <<>>
LocalOver      == LocalStarted /\ xl.pc = "returned" /\ pc = "done"

\* each source is fetched and extracted in turn, then the record is built,
\* and no sink is written before the record is built
FetchThenBuild ==
    /\ kindle_rankings # <<>> => normal_rankings # <<>>
    /\ audible_rankings # <<>> => kindle_rankings # <<>>
    /\ row_data # <<>> => audible_rankings # <<>>
    /\ (RemoteStarted \/ LocalStarted) => row_data # <<>>
    /\ \A i \in 1..Len(SaveCalls) :
          SaveCalls[i].path = BACKUP => (i = 2 /\ SaveRets # <<>>)

\* C15 as stated: fetch and extract each source in turn, build the record,
\* write the local sink, then the remote sink: the local write, backup
\* included, is over before the remote write starts.
C15_Original == FetchThenBuild /\ (RemoteStarted => LocalOver)

\* C15 as amended: fetch and extract each source in turn, build the record,
\* write the remote sink, then the local sink: the remote write is over
\* before the local write (primary, then backup) starts.
C15_Amended == FetchThenBuild /\ (LocalStarted => RemoteOver)

\* The remote write appended and sorted before the first local attempt, and
\* the run went on to the backup.
C15_Witness ==
    /\ pc = "done"
    /\ rw[MAIN].logged = "ok"
    /\ Len(SaveCalls) = 2
    /\ xl.result = TRUE

\* the rows of the sheet the writer appends to, as the file holds them
RowsOf(f) == EnsureSheet(LoadWorkbook(f))[SHEET_NAME]
SavedOn(p) ==
    Cardinality({i \in 1..Len(xlog) :
                    xlog[i].ev = "try" /\ xlog[i].path = p /\ xlog[i].outcome = "saved"})

C17_Step ==
    /\ \A p \in Paths :
          /\ SavedOn(p)' = SavedOn(p) => files'[p] = files[p]
          /\ SavedOn(p)' # SavedOn(p) =>
                /\ SavedOn(p)' = SavedOn(p) + 1
                /\ RowsOf(files'[p]) = Append(RowsOf(files[p]), row_data)
    /\ SavedOn(PRIMARY)' + SavedOn(BACKUP)' <= 1

\* C17: a run adds the record to the local files at most once: a step
\* changes a file only when an attempt saves, and then the file's sheet
\* gains exactly one row, the record, however many attempts failed before;
\* a failed attempt leaves the files as they were; the record is saved to
\* the backup file only when it was not saved to the primary file.
C17_AtMostOnce == [][C17_Step]_vars

\* The third attempt on the primary file saved, after two permission
\* conflicts: the file holds one row and the backup was not touched.
C17_Witness ==
    /\ pc = "done"
    /\ TriesOn(PRIMARY) = 3
    /\ SavedOn(PRIMARY) = 1
    /\ Len(RowsOf(files[PRIMARY])) = 1
    /\ RowsOf(files[PRIMARY])[1] = row_data
    /\ TriesOn(BACKUP) = 0

\* C18: the record has 9 elements, the timestamp, then the 4 print-book
\* columns, the 2 Kindle columns and the 2 Audible columns, whatever each
\* fetch met, and the remote write, the primary local write and the backup
\* local write are all handed this record.
C18_RecordShape ==
    /\ row_data # <<>> =>
          /\ Len(row_data) = 9
          /\ row_data[1] = now
          /\ Len(normal_rankings) = 4 /\ SubSeq(row_data, 2, 5) = normal_rankings
          /\ Len(kindle_rankings) = 2 /\ SubSeq(row_data, 6, 7) = kindle_rankings
          /\ Len(audible_rankings) = 2 /\ SubSeq(row_data, 8, 9) = audible_rankings
    /\ RemoteStarted => rw[MAIN].row = row_data
    /\ \A i \in 1..Len(SaveCalls) : SaveCalls[i].row = row_data
    /\ xl.pc # "idle" => xl.row = row_data
    /\ \A p \in Paths : SavedOn(p) = 1 =>
          RowsOf(files[p])[Len(RowsOf(files[p]))] = row_data

\* A surplus print-book page, a partial Kindle page and no Audible ranking;
\* the record went to the remote sheet and to both local paths.
C18_Witness ==
    /\ pc = "done"
    /\ \A i \in 1..4 : normal_rankings[i] # SENTINEL
    /\ kindle_rankings[1] # SENTINEL /\ kindle_rankings[2] = SENTINEL
    /\ audible_rankings = <<SENTINEL, SENTINEL>>
    /\ \E i \in 1..Len(remote.rows) : remote.rows[i] = row_data
    /\ Len(SaveCalls) = 2
    /\ SavedOn(BACKUP) = 1

ByIdAttempts(sheet) ==
    Cardinality({i \in 1..Len(gs.requests) : gs.requests[i].sheet = sheet})
ByIdFailed(sheet) ==
    \E i \in 1..Len(gs.requests) : gs.requests[i] = ByIdRequest(sheet, "raised")
ByIdHolds(rows, row) == \E i \in 1..Len(rows) : rows[i] = row
ByIdErrors == Cardinality({i \in 1..Len(gs.log) : gs.log[i] = "write error"})

ByIdOrder ==
    /\ ByIdAttempts("normal") <= 1 /\ ByIdAttempts("kindle") <= 1
    /\ ByIdAttempts("kindle") = 1 =>
          (gs.requests[1] = ByIdRequest("normal", "ok") /\ gs.requests[2].sheet = "kindle")
    /\ ByIdFailed("normal") =>
          /\ ByIdAttempts("kindle") = 0
          /\ ~ByIdHolds(gs.sheet_normal, gs.normal_rankings)
          /\ ~ByIdHolds(gs.sheet_kindle, gs.kindle_rankings)
    /\ ByIdFailed("kindle") =>
          /\ ByIdHolds(gs.sheet_normal, gs.normal_rankings)
          /\ ~ByIdHolds(gs.sheet_kindle, gs.kindle_rankings)
    /\ (ByIdFailed("normal") \/ ByIdFailed("kindle")) =>
          /\ ByIdErrors = 1
          /\ \A i \in 1..Len(gs.log) : gs.log[i] # "write complete"
          /\ gs.pc \in {"finish", "done"}

\* C19: in amazonranking_to_gsheet_by_id the 紙書籍 row is appended before
\* the Kindle row and one handler serves both: when the 紙書籍 append fails
\* the Kindle append is never attempted, when the Kindle append fails the
\* 紙書籍 row is already in its sheet, the error is logged once, and in both
\* cases the run reaches its last statement.
C19_SharedHandler ==
    /\ []ByIdOrder
    /\ (gs.pc = "append_normal") ~> (gs.pc = "done")

\* The run is over after the Kindle append failed: the 紙書籍 row is written.
C19_Witness ==
    /\ gs.pc = "done"
    /\ ByIdFailed("kindle")
    /\ ByIdHolds(gs.sheet_normal, gs.normal_rankings)
    /\ Len(gs.normal_rankings) = 3

====
